---- MODULE Spec2Model ----
(***************************************************************************)
(* Model of the PRS prompt tools of loonix/opencode:                       *)
(*   .github/prompts/generate_prs_log.py  - the four-phase prompt pipeline *)
(*                                          and the log writer (save_prs)  *)
(*   .github/prompts/prs_memory_cli.py    - the interactive log browser    *)
(*                                                                         *)
(* Text is a sequence of one-character strings, so that concatenation,     *)
(* substring search, lower-casing, stripping and lexicographic comparison  *)
(* are computed as Python computes them.                                   *)
(***************************************************************************)
EXTENDS Integers, Sequences, FiniteSets, TLC

(***************************************************************************)
(* Bounds of the model.                                                    *)
(***************************************************************************)
\* number of pipeline processes (invocations of generate_prs_log.py)
NumRuns == 2
\* number of times the wall clock advances by one second
MaxTicks == 2

Runs == 1..NumRuns

(***************************************************************************)
(* Text primitives.                                                        *)
(***************************************************************************)
\* The characters the model uses, in code-point order (Python compares
\* strings by code point).
CodePoints ==
  <<"\n"," ","#","(",")",",","-",".","/",
    "0","1","2","3","4","5","6","7","8","9",":",
    "A","B","C","D","E","F","G","H","I","J","K","L","M",
    "N","O","P","Q","R","S","T","U","V","W","X","Y","Z",
    "[","]","_",
    "a","b","c","d","e","f","g","h","i","j","k","l","m",
    "n","o","p","q","r","s","t","u","v","w","x","y","z">>

OrdTable ==
  [c \in {CodePoints[i] : i \in 1..Len(CodePoints)} |->
     CHOOSE i \in 1..Len(CodePoints) : CodePoints[i] = c]

\* ord(c), up to the order it induces
ord(c) == OrdTable[c]

UpperCase ==
  <<"A","B","C","D","E","F","G","H","I","J","K","L","M",
    "N","O","P","Q","R","S","T","U","V","W","X","Y","Z">>

LowerCase ==
  <<"a","b","c","d","e","f","g","h","i","j","k","l","m",
    "n","o","p","q","r","s","t","u","v","w","x","y","z">>

LowerTable ==
  [c \in {UpperCase[i] : i \in 1..Len(UpperCase)} |->
     LowerCase[CHOOSE i \in 1..Len(UpperCase) : UpperCase[i] = c]]

lower_char(c) == IF c \in DOMAIN LowerTable THEN LowerTable[c] ELSE c

\* str.lower()
lower(s) == [i \in 1..Len(s) |-> lower_char(s[i])]

\* Python's `needle in hay` for strings: some start offset at which hay
\* reads needle.
str_in(needle, hay) ==
  LET h == hay
      n == needle
  IN \E i \in 1..(Len(h) - Len(n) + 1) : \A j \in 1..Len(n) : h[i + j - 1] = n[j]

IsSpace(c) == c \in {" ", "\n"}

\* str.strip()
RECURSIVE lstrip(_)
lstrip(s) == IF s # <<>> /\ IsSpace(Head(s)) THEN lstrip(Tail(s)) ELSE s

RECURSIVE rstrip(_)
rstrip(s) ==
  IF s # <<>> /\ IsSpace(s[Len(s)]) THEN rstrip(SubSeq(s, 1, Len(s) - 1)) ELSE s

strip(s) == rstrip(lstrip(s))

\* sep.join(parts)
RECURSIVE join(_, _)
join(sep, parts) ==
  IF parts = <<>> THEN <<>>
  ELSE IF Len(parts) = 1 THEN parts[1]
  ELSE parts[1] \o sep \o join(sep, Tail(parts))

\* Python's < on strings: the first differing character decides, a proper
\* prefix sorts first.
str_lt(a, b) ==
  LET n == IF Len(a) < Len(b) THEN Len(a) ELSE Len(b)
      differ == {k \in 1..n : a[k] # b[k]}
  IN IF differ = {} THEN Len(a) < Len(b)
     ELSE LET first == CHOOSE k \in differ : \A j \in differ : k <= j
          IN ord(a[first]) < ord(b[first])

\* sorted(names) for a collection without duplicates
RECURSIVE sorted(_)
sorted(S) ==
  IF S = {} THEN <<>>
  ELSE LET m == CHOOSE x \in S : \A y \in S \ {x} : str_lt(x, y)
       IN <<m>> \o sorted(S \ {m})

Range(s) == {s[i] : i \in 1..Len(s)}

\* every order in which the elements of S can be enumerated
Orders(S) ==
  {s \in [1..Cardinality(S) -> S] : Range(s) = S}

(***************************************************************************)
(* The wall clock and the log file names.                                  *)
(***************************************************************************)
digit(d) == CodePoints[9 + d + 1]

\* "%02d"
two_digits(n) == <<digit((n \div 10) % 10), digit(n % 10)>>

\* save_prs with the format "%H%M%S"
strftime_time_only(t) ==
  two_digits((t \div 3600) % 24) \o two_digits((t \div 60) % 60) \o two_digits(t % 60)

\* datetime.now().strftime("%Y%m%d_%H%M%S"); the model's clock counts the
\* seconds since local time 2024-01-01 00:00:00 and stays within that month.
strftime(t) ==
  <<"2","0","2","4","0","1">> \o two_digits(1 + (t \div 86400)) \o <<"_">>
    \o two_digits((t \div 3600) % 24)
    \o two_digits((t \div 60) % 60)
    \o two_digits(t % 60)

LogPrefix == <<".","g","i","t","h","u","b","/","p","r","o","m","p","t","s","/","p","r","s","_">>
LogSuffix == <<".","p","r","o","m","p","t",".","m","d">>

\* save_prs with a file name that leaves the timestamp out
log_filename_fixed(timestamp) == LogPrefix \o <<"l","a","t","e","s","t">> \o LogSuffix

\* f".github/prompts/prs_{timestamp}.prompt.md"
log_filename(timestamp) == LogPrefix \o timestamp \o LogSuffix

(***************************************************************************)
(* generate_prs_log.py: task loading and validation.                       *)
(***************************************************************************)
\* str.endswith
endswith(s, suffix) ==
  /\ Len(s) >= Len(suffix)
  /\ SubSeq(s, Len(s) - Len(suffix) + 1, Len(s)) = suffix

\* The keys a task mapping can carry; Absent marks a key that is not there.
TaskKeys == {"task", "context", "constraints"}
Absent == <<"<absent>">>
NoneValue == <<"<None>">>

\* The Python values a task file can load to.
StrValue(t) == [kind |-> "str", text |-> t, map |-> [k \in TaskKeys |-> Absent]]
DictValue(m) == [kind |-> "dict", text |-> <<>>, map |-> m]
OtherValue == [kind |-> "other", text |-> <<>>, map |-> [k \in TaskKeys |-> Absent]]
ParseError == [kind |-> "error", text |-> <<>>, map |-> [k \in TaskKeys |-> Absent]]

\* dict.get(key, default)
dict_get(m, k, default) == IF m[k] = Absent THEN default ELSE m[k]

\* load_task_from_file(filepath): file is what the path holds, as
\* [readable, raw, yaml, json]: whether open() succeeds, the text, and what
\* yaml.safe_load and json.load make of it.  Any exception ends in sys.exit(1).
load_task_from_file(filepath, file) ==
  IF ~file.readable THEN [exit |-> TRUE, data |-> ParseError]
  ELSE IF endswith(filepath, <<".","y","a","m","l">>) \/ endswith(filepath, <<".","y","m","l">>)
    THEN [exit |-> file.yaml = ParseError, data |-> file.yaml]
  ELSE IF endswith(filepath, <<".","j","s","o","n">>)
    THEN [exit |-> file.json = ParseError, data |-> file.json]
  ELSE [exit |-> FALSE,
        data |-> DictValue([k \in TaskKeys |->
                   IF k = "task" THEN strip(file.raw) ELSE Absent])]

MissingTaskField == "Task file must contain a 'task' field"
InvalidFormat == "Invalid task file format"

\* validate_task_data(task_data): raised is the ValueError message, or "".
validate_task_data(task_data) ==
  IF task_data.kind = "str"
    THEN [raised |-> "",
          data |-> [k \in TaskKeys |-> IF k = "task" THEN task_data.text ELSE Absent]]
  ELSE IF task_data.kind = "dict"
    THEN IF task_data.map["task"] = Absent
           THEN [raised |-> MissingTaskField, data |-> task_data.map]
           ELSE [raised |-> "", data |-> task_data.map]
  ELSE [raised |-> InvalidFormat, data |-> task_data.map]

(***************************************************************************)
(* generate_prs_log.py: detect_project_context.                            *)
(***************************************************************************)
\* f"{value}" of a text or None
fmt(v) == IF v = NoneValue THEN <<"N","o","n","e">> ELSE v

\* [line.strip() for line in f if line.strip()]
RECURSIVE nonblank_lines(_)
nonblank_lines(lines) ==
  IF lines = <<>> THEN <<>>
  ELSE IF strip(Head(lines)) = <<>> THEN nonblank_lines(Tail(lines))
  ELSE <<strip(Head(lines))>> \o nonblank_lines(Tail(lines))

CommaSpace == <<","," ">>
Newline == <<"\n">>

manifest_block(header, m) ==
  <<header, <<" "," ","n","a","m","e",":"," ">> \o fmt(m.name), <<" "," ","d","e","p","e","n","d","e","n","c","i","e","s",":"," ">> \o join(CommaSpace, m.deps)>>

\* detect_project_context(): dir is the working directory, as the state of
\* package.json, pubspec.yaml and requirements.txt.  A manifest that does not
\* parse raises out of the function.
detect_project_context(dir) ==
  LET node == IF dir.package.state = "ok"
                THEN manifest_block(<<"D","e","t","e","c","t","e","d"," ","N","o","d","e",".","j","s"," ","p","r","o","j","e","c","t"," ","(","p","a","c","k","a","g","e",".","j","s","o","n",")",":">>, dir.package)
                ELSE <<>>
      flutter == IF dir.pubspec.state = "ok"
                   THEN manifest_block(<<"D","e","t","e","c","t","e","d"," ","F","l","u","t","t","e","r"," ","p","r","o","j","e","c","t"," ","(","p","u","b","s","p","e","c",".","y","a","m","l",")",":">>, dir.pubspec)
                   ELSE <<>>
      python == IF dir.requirements.state = "ok"
                  THEN <<<<"D","e","t","e","c","t","e","d"," ","P","y","t","h","o","n"," ","p","r","o","j","e","c","t"," ","(","r","e","q","u","i","r","e","m","e","n","t","s",".","t","x","t",")",":">>,
                         <<" "," ","d","e","p","e","n","d","e","n","c","i","e","s",":"," ">> \o join(CommaSpace, nonblank_lines(dir.requirements.deps))>>
                  ELSE <<>>
      context_parts == node \o flutter \o python
  IN [raised |-> dir.package.state = "malformed" \/ dir.pubspec.state = "malformed",
      text |-> IF context_parts # <<>> THEN join(Newline, context_parts)
               ELSE <<"N","o"," ","k","n","o","w","n"," ","p","r","o","j","e","c","t"," ","s","t","r","u","c","t","u","r","e"," ","d","e","t","e","c","t","e","d",".">>]

(***************************************************************************)
(* generate_prs_log.py: the prompts of main and the log content of         *)
(* save_prs.                                                               *)
(***************************************************************************)
context_prompt(project_context, additional_context, constraints, task) ==
  <<"G","i","v","e","n"," ","t","h","e"," ","f","o","l","l","o","w","i","n","g"," ","p","r","o","j","e","c","t"," ","c","o","n","t","e","x","t",":","\n">> \o project_context
    \o (IF additional_context # <<>>
          THEN <<"\n","\n","A","d","d","i","t","i","o","n","a","l"," ","c","o","n","t","e","x","t",":","\n">> \o additional_context
          ELSE <<>>)
    \o (IF constraints # <<>>
          THEN <<"\n","\n","C","o","n","s","t","r","a","i","n","t","s",":","\n">> \o constraints
          ELSE <<>>)
    \o <<"\n","\n","T","a","s","k",":"," ">> \o task

evaluation_prompt(reasoning) ==
  <<"E","v","a","l","u","a","t","e"," ","t","h","e"," ","r","e","a","s","o","n","i","n","g",":"," ">> \o reasoning

adaptation_prompt(evaluation) ==
  <<"R","e","f","a","c","t","o","r"," ","t","h","e"," ","a","p","p","r","o","a","c","h"," ","b","a","s","e","d"," ","o","n",":"," ">> \o evaluation

final_prompt(task, adaptation) ==
  task \o <<"\n","\n","I","m","p","r","o","v","e","d"," ","s","t","r","a","t","e","g","y",":","\n">> \o adaptation

HeadTitle == <<"#"," ","P","R","S"," ","P","r","o","m","p","t"," ","-"," ">>
HeadTask == <<"\n","\n","#","#"," ","T","a","s","k","\n">>
HeadReasoning == <<"\n","\n","#","#"," ","R","e","a","s","o","n","i","n","g","\n">>
HeadEvaluation == <<"\n","\n","#","#"," ","E","v","a","l","u","a","t","i","o","n","\n">>
HeadAdaptation == <<"\n","\n","#","#"," ","A","d","a","p","t","a","t","i","o","n","\n">>
HeadFinal == <<"\n","\n","#","#"," ","F","i","n","a","l"," ","O","u","t","p","u","t"," ","S","u","m","m","a","r","y","\n">>
Trailer == <<"\n","\n","#"," ","[","G","O","D"," ","M","O","D","E",":"," ","O","N","]","\n">>

\* the f-string of save_prs
prs_content(task, reasoning, evaluation, adaptation, result) ==
  HeadTitle \o task \o HeadTask \o task \o HeadReasoning \o reasoning
    \o HeadEvaluation \o evaluation \o HeadAdaptation \o adaptation
    \o HeadFinal \o result \o Trailer

\* save_prs opening with "r+"-like semantics: an existing file keeps its text
open_keep(fs, filename) ==
  [f \in DOMAIN fs \cup {filename} |-> IF f \in DOMAIN fs THEN fs[f] ELSE <<>>]

\* open(filename, "w"): the file exists and is empty
open_w(fs, filename) ==
  [f \in DOMAIN fs \cup {filename} |-> IF f = filename THEN <<>> ELSE fs[f]]

\* f.write(content) and the close that flushes it: the writer's own offset
\* starts at 0, so the text lands over the start of whatever the file holds.
write_at_0(fs, filename, content) ==
  [f \in DOMAIN fs \cup {filename} |->
     IF f = filename
       THEN content \o (IF filename \in DOMAIN fs
                          THEN SubSeq(fs[filename], Len(content) + 1, Len(fs[filename]))
                          ELSE <<>>)
       ELSE fs[f]]

\* template_content of create_template
template_content ==
  [task |-> <<"D","e","s","c","r","i","b","e"," ","y","o","u","r"," ","t","a","s","k"," ","h","e","r","e">>,
   context |-> <<"A","d","d","i","t","i","o","n","a","l"," ","c","o","n","t","e","x","t"," ","o","r"," ","b","a","c","k","g","r","o","u","n","d"," ","i","n","f","o","r","m","a","t","i","o","n">>,
   constraints |-> <<"A","n","y"," ","s","p","e","c","i","f","i","c"," ","c","o","n","s","t","r","a","i","n","t","s"," ","o","r"," ","r","e","q","u","i","r","e","m","e","n","t","s">>,
   priority |-> <<"h","i","g","h","|","m","e","d","i","u","m","|","l","o","w">>,
   expected_outcome |-> <<"W","h","a","t"," ","s","u","c","c","e","s","s"," ","l","o","o","k","s"," ","l","i","k","e">>]

\* create_template(template_path): what the path holds afterwards; a path that
\* cannot be opened for writing is left as it was.
create_template(template_path, writable, before) ==
  IF ~writable THEN [file |-> before, printed |-> "Error creating template"]
  ELSE [file |-> [format |-> IF endswith(template_path, <<".","j","s","o","n">>) THEN "json" ELSE "yaml",
                  data |-> template_content],
        printed |-> "Template created"]

(***************************************************************************)
(* State.                                                                  *)
(***************************************************************************)
VARIABLES
  now,      \* the local wall clock, in seconds (see strftime)
  ticks,    \* how often the clock has advanced
  files,    \* .github/prompts/prs_*.prompt.md: file name -> content
  finfo,    \* file name -> the second in which the file was created and
            \* the second its creator's save_prs had read from the clock
  fsops,    \* the opens and writes of log files so far, in order
  env,      \* per run: argv, standard input, the task file, the working directory
  svc,      \* what the assistant service can answer: texts, or ServiceError
  pc,       \* per run: position in main / save_prs
  loc,      \* per run: the local variables of main and save_prs
  trace,    \* per run: the calls made so far, in order
  tmpl,     \* per run: what the --template path holds
  tty,      \* the lines the user of the log browser may type
  cliPc,    \* position of prs_memory_cli.main
  out,      \* what the log browser printed for the last menu choice
  shown,    \* the listing (file names, by display index) printed last
  pending,  \* the names that runs had computed but not yet created when that
            \* listing was printed
  last      \* the last menu choice dispatched, with what it read and opened

runVars == <<env, svc, pc, loc, trace, tmpl>>
cliVars == <<tty, cliPc, out, shown, pending, last>>
vars == <<now, ticks, files, finfo, fsops, env, svc, pc, loc, trace, tmpl,
          tty, cliPc, out, shown, pending, last>>

ServiceError == <<"<error>">>

\* argparse leaves an option that was not given as None; `if args.x:` is
\* false for None and for the empty string.
truthy(v) == v # NoneValue /\ v # <<>>

NoTemplate == [format |-> "none", data |-> template_content]

\* the locals of main and save_prs, and three records of the run: the second
\* in which it started, the second save_prs read from the clock, and the log
\* directory as the run found it
InitLoc ==
  [task |-> <<>>, additional_context |-> <<>>, constraints |-> <<>>,
   context_prompt |-> <<>>, reasoning |-> <<>>, evaluation |-> <<>>,
   adaptation |-> <<>>, final |-> <<>>, phase |-> 0,
   timestamp |-> <<>>, filename |-> <<>>, content |-> <<>>,
   started |-> 0, second |-> 0, before |-> <<>>]

Event(name, text) == [ev |-> name, text |-> text]

(***************************************************************************)
(* generate_prs_log.py: main and save_prs, one process per run.            *)
(***************************************************************************)
\* main with --file tested before --template
main_branch_file_first(argv) ==
  IF truthy(argv.file) THEN "file"
  ELSE IF truthy(argv.template) THEN "template"
  ELSE IF truthy(argv.task) THEN "task"
  ELSE "input"

\* the branch main takes, lines 101-120
main_branch(argv) ==
  IF truthy(argv.template) THEN "template"
  ELSE IF truthy(argv.file) THEN "file"
  ELSE IF truthy(argv.task) THEN "task"
  ELSE "input"

\* main, lines 101-103: --template writes the template and returns.
main_template(p) ==
  /\ pc[p] = "main"
  /\ main_branch(env[p].argv) = "template"
  /\ LET r == create_template(env[p].argv.template, env[p].template_writable, tmpl[p])
     IN /\ tmpl' = [tmpl EXCEPT ![p] = r.file]
        /\ trace' = [trace EXCEPT ![p] = Append(@, Event("create_template", <<>>))]
  /\ pc' = [pc EXCEPT ![p] = "returned"]
  /\ loc' = [loc EXCEPT ![p].started = now, ![p].before = files]
  /\ UNCHANGED <<now, ticks, files, finfo, fsops, env, svc, cliVars>>

\* The task source of main, lines 106-120, as
\* [status, task, additional_context, constraints, calls].
task_source(e) ==
  IF main_branch(e.argv) = "file"
    THEN LET loaded == load_task_from_file(e.argv.file, e.taskfile)
             valid == validate_task_data(loaded.data)
         IN IF loaded.exit
              THEN [status |-> "exit1", task |-> <<>>, additional_context |-> <<>>,
                    constraints |-> <<>>,
                    calls |-> <<Event("load_task_from_file", <<>>)>>]
            ELSE IF valid.raised # ""
              THEN [status |-> "raised", task |-> <<>>, additional_context |-> <<>>,
                    constraints |-> <<>>,
                    calls |-> <<Event("load_task_from_file", <<>>),
                                Event("validate_task_data", <<>>)>>]
            ELSE [status |-> "detect", task |-> valid.data["task"],
                  additional_context |-> dict_get(valid.data, "context", <<>>),
                  constraints |-> dict_get(valid.data, "constraints", <<>>),
                  calls |-> <<Event("load_task_from_file", <<>>),
                              Event("validate_task_data", <<>>)>>]
  ELSE IF main_branch(e.argv) = "task"
    THEN [status |-> "detect", task |-> e.argv.task, additional_context |-> <<>>,
          constraints |-> <<>>, calls |-> <<>>]
  ELSE [status |-> "detect", task |-> e.stdin, additional_context |-> <<>>,
        constraints |-> <<>>, calls |-> <<Event("input", <<>>)>>]

\* main, lines 101 and 106-120: no --template, so the task is determined.
main_task(p) ==
  /\ pc[p] = "main"
  /\ main_branch(env[p].argv) # "template"
  /\ LET s == task_source(env[p])
     IN /\ pc' = [pc EXCEPT ![p] = s.status]
        /\ loc' = [loc EXCEPT ![p].task = s.task,
                              ![p].additional_context = s.additional_context,
                              ![p].constraints = s.constraints,
                              ![p].started = now,
                              ![p].before = files]
        /\ trace' = [trace EXCEPT ![p] = @ \o s.calls]
  /\ UNCHANGED <<now, ticks, files, finfo, fsops, env, svc, tmpl, cliVars>>

\* main, lines 123-132: the project context and the first prompt.
main_context(p) ==
  /\ pc[p] = "detect"
  /\ LET d == detect_project_context(env[p].dir)
     IN /\ pc' = [pc EXCEPT ![p] = IF d.raised THEN "raised" ELSE "ask"]
        /\ loc' = [loc EXCEPT
                     ![p].context_prompt =
                        IF d.raised THEN <<>>
                        ELSE context_prompt(d.text, loc[p].additional_context,
                                            loc[p].constraints, loc[p].task),
                     ![p].phase = IF d.raised THEN 0 ELSE 1]
        /\ trace' = [trace EXCEPT ![p] = Append(@, Event("detect_project_context", <<>>))]
  /\ UNCHANGED <<now, ticks, files, finfo, fsops, env, svc, tmpl, cliVars>>

\* main with the adaptation prompt built from the reasoning
phase_prompt_stale(l) ==
  CASE l.phase = 1 -> l.context_prompt
    [] l.phase = 2 -> evaluation_prompt(l.reasoning)
    [] l.phase = 3 -> adaptation_prompt(l.reasoning)
    [] l.phase = 4 -> final_prompt(l.task, l.adaptation)

\* The prompt of the phase-th call of main, lines 136, 139, 142, 145.
phase_prompt(l) ==
  CASE l.phase = 1 -> l.context_prompt
    [] l.phase = 2 -> evaluation_prompt(l.reasoning)
    [] l.phase = 3 -> adaptation_prompt(l.evaluation)
    [] l.phase = 4 -> final_prompt(l.task, l.adaptation)

\* ask_copilot(prompt): the request goes out and main blocks.
ask_copilot(p) ==
  /\ pc[p] = "ask"
  /\ trace' = [trace EXCEPT ![p] = Append(@, Event("ask", phase_prompt(loc[p])))]
  /\ pc' = [pc EXCEPT ![p] = "wait"]
  /\ UNCHANGED <<now, ticks, files, finfo, fsops, env, svc, loc, tmpl, cliVars>>

\* main with the last call wrapped in a try that swallows the failure
after_call_swallow(phase, r) ==
  IF phase = 4 THEN "save"
  ELSE IF r = ServiceError THEN "raised" ELSE "ask"

\* where main continues after the phase-th call has returned r, or raised
after_call(phase, r) ==
  IF r = ServiceError THEN "raised"
  ELSE IF phase = 4 THEN "save" ELSE "ask"

\* client.chat returns a text, which main binds to reasoning, evaluation,
\* adaptation or final, or raises, which nothing in main catches.
chat_returns(p) ==
  /\ pc[p] = "wait"
  /\ \E r \in svc :
       IF r = ServiceError
         THEN /\ pc' = [pc EXCEPT ![p] = after_call(loc[p].phase, r)]
              /\ trace' = [trace EXCEPT ![p] = Append(@, Event("error", <<>>))]
              /\ loc' = loc
         ELSE /\ pc' = [pc EXCEPT ![p] = after_call(loc[p].phase, r)]
              /\ trace' = [trace EXCEPT ![p] = Append(@, Event("reply", r))]
              /\ loc' = [loc EXCEPT
                   ![p].reasoning = IF loc[p].phase = 1 THEN r ELSE @,
                   ![p].evaluation = IF loc[p].phase = 2 THEN r ELSE @,
                   ![p].adaptation = IF loc[p].phase = 3 THEN r ELSE @,
                   ![p].final = IF loc[p].phase = 4 THEN r ELSE @,
                   ![p].phase = IF loc[p].phase = 4 THEN 4 ELSE @ + 1]
  /\ UNCHANGED <<now, ticks, files, finfo, fsops, env, svc, tmpl, cliVars>>

\* save_prs, lines 68-88: the timestamp, the file name and the content.
save_prs(p) ==
  /\ pc[p] = "save"
  /\ loc' = [loc EXCEPT
       ![p].second = now,
       ![p].timestamp = strftime(now),
       ![p].filename = log_filename(strftime(now)),
       ![p].content = prs_content(loc[p].task, loc[p].reasoning, loc[p].evaluation,
                                  loc[p].adaptation, loc[p].final)]
  /\ trace' = [trace EXCEPT ![p] = Append(@, Event("save_prs", <<>>))]
  /\ pc' = [pc EXCEPT ![p] = "open"]
  /\ UNCHANGED <<now, ticks, files, finfo, fsops, env, svc, tmpl, cliVars>>

\* save_prs, line 89: open(filename, "w").
save_open(p) ==
  /\ pc[p] = "open"
  /\ files' = open_w(files, loc[p].filename)
  /\ finfo' = [f \in DOMAIN files' |->
                 IF f \in DOMAIN finfo THEN finfo[f]
                 ELSE [created |-> now, stamp |-> loc[p].second]]
  /\ fsops' = Append(fsops, [run |-> p, op |-> "open", file |-> loc[p].filename])
  /\ pc' = [pc EXCEPT ![p] = "write"]
  /\ UNCHANGED <<now, ticks, env, svc, loc, trace, tmpl, cliVars>>

\* save_prs, lines 90-91: the write, the close and "Saved: ...".
save_write(p) ==
  /\ pc[p] = "write"
  /\ files' = write_at_0(files, loc[p].filename, loc[p].content)
  /\ fsops' = Append(fsops, [run |-> p, op |-> "write", file |-> loc[p].filename])
  /\ pc' = [pc EXCEPT ![p] = "returned"]
  /\ UNCHANGED <<now, ticks, finfo, env, svc, loc, trace, tmpl, cliVars>>

\* one second passes
Tick ==
  /\ ticks < MaxTicks
  /\ now' = now + 1
  /\ ticks' = ticks + 1
  /\ UNCHANGED <<files, finfo, fsops, runVars, cliVars>>

RunStep ==
  \E p \in Runs :
    \/ main_template(p)
    \/ main_task(p)
    \/ main_context(p)
    \/ ask_copilot(p)
    \/ chat_returns(p)
    \/ save_prs(p)
    \/ save_open(p)
    \/ save_write(p)

(***************************************************************************)
(* prs_memory_cli.py: the log browser.                                     *)
(***************************************************************************)
Entry(i, f) == [kind |-> "entry", index |-> i, path |-> f, text |-> <<>>]
Content(t) == [kind |-> "content", index |-> 0, path |-> <<>>, text |-> t]
InvalidIndex == [kind |-> "invalid", index |-> 0, path |-> <<>>, text |-> <<>>]
Match(f) == [kind |-> "match", index |-> 0, path |-> f, text |-> <<>>]

\* glob.glob(".github/prompts/prs_*.prompt.md"): the names that match.  Every
\* file of the log directory the model holds carries the prefix and the suffix.
glob(fs) ==
  {f \in DOMAIN fs : Len(f) >= Len(LogPrefix) + Len(LogSuffix)
                     /\ SubSeq(f, 1, Len(LogPrefix)) = LogPrefix
                     /\ endswith(f, LogSuffix)}

RECURSIVE reversed(_)
reversed(s) == IF s = <<>> THEN <<>> ELSE Append(reversed(Tail(s)), Head(s))

\* list_logs without sorted(): the names as the directory hands them out,
\* here newest first
list_logs_unsorted(fs) == reversed(sorted(glob(fs)))

\* list_logs(): the sorted names; line i of the print-out is "[i] name",
\* i counting from 1.
list_logs(fs) == sorted(glob(fs))

listing(names) == [i \in 1..Len(names) |-> Entry(i, names[i])]

\* Python's seq[i]: from 0, a negative i counts from the end
py_getitem(s, i) == IF i >= 0 THEN s[i + 1] ELSE s[Len(s) + i + 1]

\* view_log with `index < len(files)` as its only test; a negative index then
\* counts from the end, and one before the start raises IndexError
view_log_no_lower_bound(index, fs) ==
  LET names == list_logs(fs)
  IN IF index < Len(names) /\ 0 - Len(names) <= index
       THEN [out |-> listing(names) \o <<Content(fs[py_getitem(names, index)])>>,
             names |-> names,
             opened |-> <<py_getitem(names, index)>>]
       ELSE [out |-> listing(names) \o (IF index < 0 THEN <<>> ELSE <<InvalidIndex>>),
             names |-> names,
             opened |-> <<>>]

\* view_log(index), as [out, names, opened]: what is printed, the names
\* list_logs returned, and the files opened.
view_log(index, fs) ==
  LET names == list_logs(fs)
  IN IF 0 <= index /\ index < Len(names)
       THEN [out |-> listing(names) \o <<Content(fs[py_getitem(names, index)])>>,
             names |-> names,
             opened |-> <<py_getitem(names, index)>>]
       ELSE [out |-> listing(names) \o <<InvalidIndex>>,
             names |-> names,
             opened |-> <<>>]

\* search_logs with only the content lower-cased
matches_raw_keyword(keyword, content) == str_in(keyword, lower(content))

\* the test of search_logs, line 20
matches(keyword, content) == str_in(lower(keyword), lower(content))

\* search_logs(keyword) over the names in the order glob gave them
RECURSIVE search_logs(_, _, _)
search_logs(keyword, fs, order) ==
  IF order = <<>> THEN <<>>
  ELSE (IF matches(keyword, fs[Head(order)]) THEN <<Head(order)>> ELSE <<>>)
         \o search_logs(keyword, fs, Tail(order))

is_digit(c) == \E d \in 0..9 : digit(d) = c

RECURSIVE digits_value(_)
digits_value(s) ==
  IF s = <<>> THEN 0
  ELSE 10 * digits_value(SubSeq(s, 1, Len(s) - 1))
         + (CHOOSE d \in 0..9 : digit(d) = s[Len(s)])

\* int(line), as [ok, value]: surrounding white space, an optional sign and
\* decimal digits; anything else is a ValueError.
int(line) ==
  LET s == strip(line)
      signed == s # <<>> /\ Head(s) \in {"+", "-"}
      body == IF signed THEN Tail(s) ELSE s
  IN IF body # <<>> /\ \A i \in 1..Len(body) : is_digit(body[i])
       THEN [ok |-> TRUE,
             value |-> IF signed /\ Head(s) = "-" THEN 0 - digits_value(body)
                       ELSE digits_value(body)]
       ELSE [ok |-> FALSE, value |-> 0]

\* main with a final else that leaves the loop
dispatch_else_exit(choice) ==
  IF choice = "1" THEN "list"
  ELSE IF choice = "2" THEN "view"
  ELSE IF choice = "3" THEN "search"
  ELSE "exit"

\* the if/elif chain of main, lines 33-42
dispatch(choice) ==
  IF choice = "1" THEN "list"
  ELSE IF choice = "2" THEN "view"
  ELSE IF choice = "3" THEN "search"
  ELSE IF choice = "4" THEN "exit"
  ELSE "none"

\* the record of a menu choice: the command, the lines typed, the index
\* handed to view_log, the files opened, and for a view the listing the user
\* had before them with the names pending at that listing
Last(cmd, choice, arg, index, opened) ==
  [cmd |-> cmd, choice |-> choice, arg |-> arg, index |-> index, opened |-> opened,
   seen |-> <<>>, stale |-> {}]

\* the names runs have computed (save_prs, line 69) for files they have not
\* created yet (line 89)
Pending == {loc[p].filename : p \in {q \in Runs : pc[q] = "open"}} \ DOMAIN files

\* choice 1: list_logs()
cli_list ==
  /\ cliPc = "menu"
  /\ \E choice \in tty.choices :
       /\ dispatch(choice) = "list"
       /\ last' = Last("list", choice, <<>>, 0, <<>>)
  /\ out' = listing(list_logs(files))
  /\ shown' = list_logs(files)
  /\ pending' = Pending
  /\ UNCHANGED <<now, ticks, files, finfo, fsops, runVars, tty, cliPc>>

\* choice 2: input("Index: ") is next
cli_ask_index ==
  /\ cliPc = "menu"
  /\ \E choice \in tty.choices :
       /\ dispatch(choice) = "view"
       /\ last' = Last("ask_index", choice, <<>>, 0, <<>>)
  /\ cliPc' = "index"
  /\ out' = <<>>
  /\ UNCHANGED <<now, ticks, files, finfo, fsops, runVars, tty, shown, pending>>

\* idx = int(input("Index: ")) - 1; view_log(idx)
cli_view ==
  /\ cliPc = "index"
  /\ \E line \in tty.indexes :
       LET n == int(line)
           v == view_log(n.value - 1, files)
       IN IF n.ok
            THEN /\ cliPc' = "menu"
                 /\ out' = v.out
                 /\ shown' = v.names
                 /\ pending' = Pending
                 /\ last' = [Last("view", "2", line, n.value - 1, v.opened)
                               EXCEPT !.seen = shown, !.stale = pending]
            ELSE /\ cliPc' = "crashed"
                 /\ out' = <<>>
                 /\ shown' = shown
                 /\ pending' = pending
                 /\ last' = Last("ValueError", "2", line, 0, <<>>)
  /\ UNCHANGED <<now, ticks, files, finfo, fsops, runVars, tty>>

\* choice 3: input("Keyword: ") is next
cli_ask_keyword ==
  /\ cliPc = "menu"
  /\ \E choice \in tty.choices :
       /\ dispatch(choice) = "search"
       /\ last' = Last("ask_keyword", choice, <<>>, 0, <<>>)
  /\ cliPc' = "keyword"
  /\ out' = <<>>
  /\ UNCHANGED <<now, ticks, files, finfo, fsops, runVars, tty, shown, pending>>

\* kw = input("Keyword: "); search_logs(kw)
cli_search ==
  /\ cliPc = "keyword"
  /\ \E kw \in tty.keywords, order \in Orders(glob(files)) :
       LET found == search_logs(kw, files, order)
       IN /\ out' = [i \in 1..Len(found) |-> Match(found[i])]
          /\ last' = Last("search", "3", kw, 0, order)
  /\ cliPc' = "menu"
  /\ UNCHANGED <<now, ticks, files, finfo, fsops, runVars, tty, shown, pending>>

\* choice 4: break
cli_exit ==
  /\ cliPc = "menu"
  /\ \E choice \in tty.choices :
       /\ dispatch(choice) = "exit"
       /\ last' = Last("exit", choice, <<>>, 0, <<>>)
  /\ cliPc' = "exited"
  /\ out' = <<>>
  /\ UNCHANGED <<now, ticks, files, finfo, fsops, runVars, tty, shown, pending>>

\* any other line: no branch of the chain is taken
cli_other ==
  /\ cliPc = "menu"
  /\ \E choice \in tty.choices :
       /\ dispatch(choice) = "none"
       /\ last' = Last("none", choice, <<>>, 0, <<>>)
  /\ out' = <<>>
  /\ UNCHANGED <<now, ticks, files, finfo, fsops, runVars, tty, cliPc, shown, pending>>

CliStep ==
  \/ cli_list
  \/ cli_ask_index
  \/ cli_view
  \/ cli_ask_keyword
  \/ cli_search
  \/ cli_exit
  \/ cli_other

(***************************************************************************)
(* Inputs.                                                                 *)
(***************************************************************************)
Ok == <<"o","k">>
Deploy == <<"D","e","p","l","o","y">>
Shout == <<"d","E","P","L","O","Y","!">>
PathYaml == <<"t",".","y","a","m","l">>
PathYml == <<"t",".","y","m","l">>
PathJson == <<"t",".","j","s","o","n">>
PathTxt == <<"t",".","t","x","t">>

\* the task text of run p on the command line: p letters, so that the runs'
\* log contents differ in text and in length
TaskOf(p) == [i \in 1..p |-> "t"]

Argv(template, file, task) == [template |-> template, file |-> file, task |-> task]

TaskMap(task, context, constraints) ==
  [k \in TaskKeys |-> IF k = "task" THEN task
                      ELSE IF k = "context" THEN context ELSE constraints]

TaskFile(readable, yaml, json) ==
  [readable |-> readable, raw |-> <<" ","a"," ","b","\n">>, yaml |-> yaml, json |-> json]

FullTask == DictValue(TaskMap(Deploy, <<"c">>, <<"k">>))

TaskFiles ==
  { TaskFile(FALSE, ParseError, ParseError),
    TaskFile(TRUE, ParseError, ParseError),
    TaskFile(TRUE, StrValue(<<"a"," ","b">>), ParseError),
    TaskFile(TRUE, FullTask, FullTask),
    TaskFile(TRUE, DictValue(TaskMap(<<"a">>, Absent, Absent)), ParseError),
    TaskFile(TRUE, DictValue(TaskMap(Absent, <<"c">>, Absent)),
                   DictValue(TaskMap(Absent, <<"c">>, Absent))),
    TaskFile(TRUE, OtherValue, OtherValue) }

Manifest(state, name, deps) == [state |-> state, name |-> name, deps |-> deps]
NoManifest == Manifest("absent", NoneValue, <<>>)
BadManifest == Manifest("malformed", NoneValue, <<>>)

Dir(package, pubspec, requirements) ==
  [package |-> package, pubspec |-> pubspec, requirements |-> requirements]

EmptyDir == Dir(NoManifest, NoManifest, NoManifest)

Dirs ==
  { EmptyDir,
    Dir(Manifest("ok", <<"x">>, << <<"a">>, <<"b">> >>), NoManifest, NoManifest),
    Dir(BadManifest, NoManifest, NoManifest),
    Dir(Manifest("ok", <<"x">>, <<>>), BadManifest,
        Manifest("ok", NoneValue, << <<"r">> >>)),
    Dir(NoManifest, Manifest("ok", NoneValue, << <<"f">> >>),
        Manifest("ok", NoneValue, << <<" ","r","\n">>, <<"\n">>, <<"s","\n">> >>)) }

BaseEnv ==
  [argv |-> Argv(NoneValue, NoneValue, NoneValue), stdin |-> <<"a">>,
   taskfile |-> TaskFile(TRUE, FullTask, FullTask),
   template_writable |-> TRUE, dir |-> EmptyDir]

\* the command lines of a single run
Argvs ==
  { Argv(NoneValue, NoneValue, Deploy),
    Argv(NoneValue, NoneValue, NoneValue),
    Argv(NoneValue, NoneValue, <<>>),
    Argv(NoneValue, PathYaml, NoneValue),
    Argv(NoneValue, PathYml, Deploy),
    Argv(NoneValue, PathJson, NoneValue),
    Argv(NoneValue, PathTxt, NoneValue),
    Argv(PathJson, NoneValue, NoneValue),
    Argv(PathYaml, PathYaml, Deploy),
    Argv(<<>>, NoneValue, Deploy) }

\* the environments of a single run: every command line, every task file
\* behind --file, every working directory
PipeEnvs ==
  {[BaseEnv EXCEPT !.argv = a, !.template_writable = w] :
      a \in Argvs, w \in BOOLEAN}
  \cup {[BaseEnv EXCEPT !.argv = Argv(NoneValue, path, NoneValue), !.taskfile = f] :
      path \in {PathYaml, PathJson, PathTxt}, f \in TaskFiles}
  \cup {[BaseEnv EXCEPT !.argv = a, !.dir = d] :
      a \in {Argv(NoneValue, NoneValue, Deploy), Argv(NoneValue, PathYaml, NoneValue)},
      d \in Dirs}

\* the environments of the concurrent runs: run p is given --task, or
\* --template
StoreEnvs(p) ==
  { [BaseEnv EXCEPT !.argv = Argv(NoneValue, NoneValue, TaskOf(p))],
    [BaseEnv EXCEPT !.argv = Argv(PathYaml, NoneValue, TaskOf(p))] }

NoFiles == [f \in {} |-> <<>>]

\* a log directory as earlier runs left it: m maps the seconds in which runs
\* saved to the contents they wrote
StoreOf(m) ==
  [f \in {log_filename(strftime(t)) : t \in DOMAIN m} |->
     m[CHOOSE t \in DOMAIN m : log_filename(strftime(t)) = f]]

InfoOf(m) ==
  [f \in {log_filename(strftime(t)) : t \in DOMAIN m} |->
     LET t == CHOOSE t \in DOMAIN m : log_filename(strftime(t)) = f
     IN [created |-> t, stamp |-> t]]

OldTimes == {9, 10, 86400}

OldContents ==
  { prs_content(Deploy, Ok, Ok, Ok, Ok),
    prs_content(<<"a">>, Ok, Shout, Ok, Ok),
    prs_content(<<"a">>, Ok, Ok, Ok, <<"d","e","p","l","o">>) }

OldStores == UNION {[T -> OldContents] : T \in SUBSET OldTimes}

\* a file of the log directory that is no log: .github/prompts/prs_log.md
OtherName == LogPrefix \o <<"l","o","g",".","m","d">>
OtherFile == [f \in {OtherName} |-> Deploy \o <<" ","l","o","g","\n">>]
OtherInfo == [f \in {OtherName} |-> [created |-> 0, stamp |-> 0]]

\* two directories side by side (their names do not clash)
Both(f, g) == [x \in DOMAIN f \cup DOMAIN g |-> IF x \in DOMAIN f THEN f[x] ELSE g[x]]

InitRuns(active) ==
  /\ pc = [p \in Runs |-> IF p \in active THEN "main" ELSE "absent"]
  /\ loc = [p \in Runs |-> InitLoc]
  /\ trace = [p \in Runs |-> <<>>]
  /\ tmpl = [p \in Runs |-> NoTemplate]

InitCli ==
  /\ fsops = <<>>
  /\ cliPc = "menu"
  /\ out = <<>>
  /\ shown = <<>>
  /\ pending = {}
  /\ last = Last("start", "", <<>>, 0, <<>>)

StartTimes == {58, 86398}

\* Concurrent pipeline runs and the log browser over one log directory.
Init ==
  /\ now = 86398
  /\ ticks = 0
  /\ files = NoFiles
  /\ finfo = NoFiles
  /\ env \in [Runs -> UNION {StoreEnvs(p) : p \in Runs}]
  /\ \A p \in Runs : env[p] \in StoreEnvs(p)
  /\ svc = {Ok}
  /\ InitRuns(Runs)
  /\ tty = [choices |-> {"1", "2", "3", "4", ""},
            indexes |-> {<<"1">>, <<"2">>},
            keywords |-> {<<"T","T">>}]
  /\ InitCli

Next == RunStep \/ CliStep \/ Tick

Spec == Init /\ [][Next]_vars

\* The concurrent pipeline runs alone.
NextRace == RunStep \/ Tick

SpecRace == Init /\ [][NextRace]_vars

\* One pipeline run, over every environment, with a service that can fail.
InitPipe ==
  /\ now \in StartTimes
  /\ ticks = 0
  /\ \E m \in {mm \in OldStores : DOMAIN mm \subseteq {9}} :
       files = StoreOf(m) /\ finfo = InfoOf(m)
  /\ \E e \in PipeEnvs : env = [p \in Runs |-> IF p = 1 THEN e ELSE BaseEnv]
  /\ svc = {Ok, Shout, ServiceError}
  /\ InitRuns({1})
  /\ tty = [choices |-> {}, indexes |-> {}, keywords |-> {}]
  /\ InitCli

NextPipe == RunStep \/ Tick

SpecPipe == InitPipe /\ [][NextPipe]_vars

\* The log browser alone, over the log directories earlier runs can leave.
InitCLI ==
  /\ now = 86401
  /\ ticks = 0
  /\ \E m \in OldStores :
       \/ files = StoreOf(m) /\ finfo = InfoOf(m)
       \/ files = Both(StoreOf(m), OtherFile) /\ finfo = Both(InfoOf(m), OtherInfo)
  /\ env = [p \in Runs |-> BaseEnv]
  /\ svc = {Ok}
  /\ InitRuns({})
  /\ tty = [choices |-> {"1", "2", "3", "4", "5", " 1", ""},
            indexes |-> {<<"1">>, <<" ","2","\n">>, <<"0">>, <<"-","1">>, <<"4">>,
                         <<"+","3">>, <<"a">>, <<>>, <<"1",".","0">>},
            keywords |-> {<<"d","e","p","l","o","y">>, <<"D","e">>, <<"t","a","s","k">>,
                          <<>>, <<"z">>, <<"Y","!">>}]
  /\ InitCli

SpecCLI == InitCLI /\ [][CliStep]_vars

(***************************************************************************)
(* Properties.                                                             *)
(***************************************************************************)
IsCall(e) == e.ev \in {"ask", "reply", "error", "save_prs"}

\* the requests to the assistant, their outcomes and the call of save_prs
Calls(p) == SelectSeq(trace[p], IsCall)

Asks(p) == {i \in 1..Len(trace[p]) : trace[p][i].ev = "ask"}

\* C1: the assistant is called in the order reasoning, evaluation, adaptation,
\* final synthesis, a call going out only after the one before it returned;
\* the evaluation prompt ends with the reasoning as returned, the adaptation
\* prompt with the evaluation, the final prompt holds the task text and ends
\* with the adaptation; save_prs is called once, after the fourth call
\* returned; a run that saves has made exactly four calls, and a run makes
\* fewer only when a call raised.
C1_FourCallsInOrder ==
  \A p \in Runs :
    LET c == Calls(p)
    IN /\ Len(c) <= 9
       /\ \A i \in 1..Len(c) :
            /\ i \in {1, 3, 5, 7} => c[i].ev = "ask"
            /\ i \in {2, 4, 6, 8} => c[i].ev \in {"reply", "error"}
            /\ i = 9 => c[i].ev = "save_prs"
            /\ c[i].ev = "error" => i = Len(c)
            /\ i \in {3, 5, 7} => /\ endswith(c[i].text, c[i - 1].text)
                                  /\ c[i].text # c[i - 1].text
       /\ Len(c) >= 7 => str_in(loc[p].task, SubSeq(c[7].text, 1, Len(c[7].text) - Len(c[6].text)))
       /\ (pc[p] \in {"open", "write"} \/ (pc[p] = "returned" /\ c # <<>>)) => Len(c) = 9
       /\ (pc[p] = "raised" /\ c # <<>>) => c[Len(c)].ev = "error"

C1_Witness ==
  \E p \in Runs :
    /\ pc[p] = "returned"
    /\ Len(Calls(p)) = 9
    /\ Calls(p)[2].text # Calls(p)[4].text
    /\ Calls(p)[4].text # Calls(p)[6].text

\* a run in which task loading, validation, context detection or a call failed
FailedRun(p) ==
  \/ pc[p] \in {"exit1", "raised"}
  \/ \E i \in 1..Len(trace[p]) : trace[p][i].ev = "error"

\* C2: a run in which task loading, task validation, context detection or one
\* of the four assistant calls fails ends there: nothing is retried, save_prs
\* is not called, and the log files are as they were when the run started.
C2_FailedRunWritesNothing ==
  [][\A p \in Runs :
       FailedRun(p)' =>
         /\ pc'[p] \in {"exit1", "raised"}
         /\ \A i \in 1..Len(trace'[p]) :
              /\ trace'[p][i].ev # "save_prs"
              /\ trace'[p][i].ev = "error" => i = Len(trace'[p])
         /\ files' = loc'[p].before
         /\ DOMAIN finfo' = DOMAIN loc'[p].before
         /\ fsops' = <<>>
         /\ FailedRun(p) => (pc'[p] = pc[p] /\ trace'[p] = trace[p])]_vars

C2_Witness ==
  \E p \in Runs :
    /\ pc[p] = "raised"
    /\ Cardinality(Asks(p)) = 4
    /\ trace[p][Len(trace[p])].ev = "error"
    /\ files = loc[p].before
    /\ files # NoFiles

Logs == DOMAIN files \ {OtherName}

\* how many logs sort before f
Rank(f) == Cardinality({g \in Logs : str_lt(g, f)})

\* line k of what was printed is "[k] <the k-th log by name>", for every log
ListingPrinted(o) ==
  /\ Len(o) >= Cardinality(Logs)
  /\ \A k \in 1..Cardinality(Logs) :
       /\ o[k].kind = "entry"
       /\ o[k].index = k
       /\ o[k].path \in Logs
       /\ Rank(o[k].path) = k - 1

\* C6, as amended: view_log(index) first prints the listing, as list_logs
\* does; with an index below 0 or at or after the number of logs it then
\* prints "Invalid index.", opens no file and returns; with an index in range
\* it prints the full content of the log at that position of the sorted
\* listing.
C6_ViewPrintsListingThenResult ==
  last.cmd = "view" =>
    LET n == Cardinality(Logs)
    IN /\ cliPc = "menu"
       /\ ListingPrinted(out)
       /\ Len(out) = n + 1
       /\ IF last.index < 0 \/ last.index >= n
            THEN /\ out[n + 1] = InvalidIndex
                 /\ last.opened = <<>>
            ELSE \E f \in Logs :
                   /\ Rank(f) = last.index
                   /\ last.opened = <<f>>
                   /\ out[n + 1] = Content(files[f])

C6_Witness ==
  /\ last.cmd = "view"
  /\ Cardinality(Logs) = 2
  /\ last.index = 0 - 2
  /\ out[3] = InvalidIndex

\* C6 as claimed: an out-of-range index prints the error message and nothing
\* else.
C6_Original ==
  (last.cmd = "view" /\ (last.index < 0 \/ last.index >= Cardinality(Logs))) =>
     /\ out = <<InvalidIndex>>
     /\ last.opened = <<>>

SameLetter(a, b) ==
  \/ a = b
  \/ \E i \in 1..Len(UpperCase) : {a, b} = {UpperCase[i], LowerCase[i]}

\* content reads kw at some offset, letters compared without regard to case
ContainsIgnoringCase(content, kw) ==
  \E off \in 0..(Len(content) - Len(kw)) :
    \A j \in 1..Len(kw) : SameLetter(content[off + j], kw[j])

\* C7: search_logs(keyword) prints the path of every log whose content
\* holds the keyword, case ignored, once each, and of no other file; it
\* creates, changes and removes no file.
C7_SearchPrintsExactlyTheMatches ==
  [][cliPc = "keyword" =>
       LET expect == {f \in Logs : ContainsIgnoringCase(files[f], last'.arg)}
       IN /\ last'.cmd = "search"
          /\ Len(out') = Cardinality(expect)
          /\ {out'[k].path : k \in 1..Len(out')} = expect
          /\ \A k \in 1..Len(out') : out'[k].kind = "match"
          /\ files' = files
          /\ finfo' = finfo]_vars

C7_Witness ==
  /\ last.cmd = "search"
  /\ last.arg = <<"d","e","p","l","o","y">>
  /\ Cardinality(Logs) = 3
  /\ OtherName \in DOMAIN files
  /\ Len(out) = 2

\* the lines int() converts
NumericLines ==
  {<<"1">>, <<" ","2","\n">>, <<"0">>, <<"-","1">>, <<"4">>, <<"+","3">>}

\* C9: from the menu, 1 lists, 2 asks for an index and views, 3 asks for a
\* keyword and searches, 4 leaves the loop, any other line does nothing;
\* after each of them but 4 the menu is back.  The only other way out is an
\* index line that int() rejects, before view_log is called.
C9_MenuLoop ==
  [][/\ cliPc = "menu" =>
          /\ last'.choice = "1" =>
               (cliPc' = "menu" /\ last'.cmd = "list" /\ ListingPrinted(out')
                  /\ Len(out') = Cardinality(Logs))
          /\ last'.choice = "2" => cliPc' = "index"
          /\ last'.choice = "3" => cliPc' = "keyword"
          /\ last'.choice = "4" => cliPc' = "exited"
          /\ last'.choice \notin {"1", "2", "3", "4"} =>
               (cliPc' = "menu" /\ last'.cmd = "none" /\ out' = <<>> /\ shown' = shown)
     /\ cliPc = "index" =>
          IF last'.arg \in NumericLines
            THEN cliPc' = "menu" /\ last'.cmd = "view"
            ELSE /\ cliPc' = "crashed"
                 /\ out' = <<>>
                 /\ shown' = shown
                 /\ last'.opened = <<>>
     /\ cliPc = "keyword" => (cliPc' = "menu" /\ last'.cmd = "search")
     /\ cliPc \notin {"menu", "index", "keyword"} => cliPc' = cliPc
     /\ files' = files]_vars

C9_Witness ==
  /\ cliPc = "crashed"
  /\ last.arg = <<"1",".","0">>
  /\ shown # <<>>

\* run p has saved its log
Saved(p) == pc[p] = "returned" /\ loc[p].filename # <<>>

\* C3, as amended: the content of a log file is changed only by a pipeline
\* run whose save_prs read the same second from the clock as the run that
\* created the file (such a run opens the same name and overwrites it); no
\* run that saves under another second and no list, view or search changes
\* or removes it.
C3_OnlySameSecondSaveChanges ==
  [][\A f \in DOMAIN files :
       (f \notin DOMAIN files' \/ files'[f] # files[f]) =>
          \E p \in Runs :
            /\ pc[p] \in {"open", "write"}
            /\ pc'[p] # pc[p]
            /\ loc[p].second = finfo[f].stamp]_vars

C3_Witness ==
  \E p, q \in Runs :
    /\ p # q
    /\ Saved(p) /\ Saved(q)
    /\ loc[p].filename = loc[q].filename
    /\ files[loc[q].filename] = loc[q].content
    /\ loc[p].content # loc[q].content
    /\ last.cmd = "view"
    /\ last.opened = <<loc[q].filename>>

\* C3 as claimed: once save_prs has written a log file, no later step changes
\* its content.
C3_Original ==
  [][\A f \in DOMAIN files :
       (\E p \in Runs : Saved(p) /\ loc[p].filename = f) =>
          (f \in DOMAIN files' /\ files'[f] = files[f])]_vars

\* the opens and writes of file f, in order
OpsOn(f) == SelectSeq(fsops, LAMBDA o : o.file = f)

\* the last thing done to f was one run's open and write, back to back
CleanLastWrite(f) ==
  LET ops == OpsOn(f)
  IN /\ Len(ops) >= 2
     /\ ops[Len(ops)].op = "write"
     /\ ops[Len(ops) - 1].op = "open"
     /\ ops[Len(ops) - 1].run = ops[Len(ops)].run

LastWriter(f) == OpsOn(f)[Len(OpsOn(f))].run

\* C4, as amended: two runs whose save_prs reads the same second from the
\* clock, whenever they started, compute the same file name; after both have
\* saved, one file carries that second's name, and when the last write to it
\* was not interleaved with another run's open or write it holds that
\* writer's content and not the other run's; both runs return normally.
C4_SameSecondLastWriteWins ==
  \A p, q \in Runs :
    (p # q /\ Saved(p) /\ Saved(q) /\ loc[p].second = loc[q].second) =>
      LET f == loc[p].filename
      IN /\ loc[q].filename = f
         /\ f \in DOMAIN files
         /\ Cardinality({g \in DOMAIN files : finfo[g].stamp = loc[p].second}) = 1
         /\ \A i \in 1..Len(trace[p]) : trace[p][i].ev # "error"
         /\ (CleanLastWrite(f) /\ LastWriter(f) \in {p, q}) =>
              /\ files[f] = loc[LastWriter(f)].content
              /\ \A r \in {p, q} \ {LastWriter(f)} : files[f] # loc[r].content

C4_Witness ==
  \E p, q \in Runs :
    /\ p # q /\ Saved(p) /\ Saved(q)
    /\ loc[p].second = loc[q].second
    /\ loc[p].started # loc[q].started
    /\ CleanLastWrite(loc[p].filename)
    /\ LastWriter(loc[p].filename) = p
    /\ Len(loc[p].content) < Len(loc[q].content)
    /\ files[loc[p].filename] = loc[p].content

\* C4 as claimed: two runs started within the same second have the same log
\* file name, and once both have saved the file holds what was written last.
C4_Original ==
  \A p, q \in Runs :
    (p # q /\ Saved(p) /\ Saved(q) /\ loc[p].started = loc[q].started) =>
      /\ loc[p].filename = loc[q].filename
      /\ files[loc[p].filename] = loc[LastWriter(loc[p].filename)].content

\* a step of the log browser that lists the logs
ListStep == cliPc = "menu" /\ last'.cmd = "list" /\ UNCHANGED <<pc, now>>

\* C5, as amended: list_logs returns every log, in lexicographic order of the
\* names, numbered 1..n in that order, and that order is the order of the
\* seconds that save_prs read from the clock when it named the files: a file
\* listed earlier was named in an earlier second.
C5_ListedInTimestampOrder ==
  [][ListStep =>
       /\ Len(shown') = Cardinality(DOMAIN files)
       /\ Range(shown') = DOMAIN files
       /\ Len(out') = Len(shown')
       /\ \A i \in 1..Len(shown') : out'[i] = Entry(i, shown'[i])
       /\ \A i, j \in 1..Len(shown') :
            i < j => /\ str_lt(shown'[i], shown'[j])
                     /\ finfo[shown'[i]].stamp < finfo[shown'[j]].stamp]_vars

C5_Witness ==
  /\ last.cmd = "list"
  /\ Len(shown) = 2
  /\ finfo[shown[1]].stamp = 86399
  /\ finfo[shown[2]].stamp = 86400
  /\ finfo[shown[1]].created = 86399
  /\ finfo[shown[2]].created = 86400

\* C5 as claimed: a file listed earlier was not created in a later second
\* than a file listed after it.
C5_Original ==
  [][ListStep =>
       \A i, j \in 1..Len(shown') :
         i < j => finfo[shown'[i]].created <= finfo[shown'[j]].created]_vars

\* C10, as amended: when no run stood between naming its file (save_prs,
\* line 69) and creating it (line 89) at the moment a listing was printed,
\* a later view of an index of that listing opens the file the listing
\* showed at that index, however many runs saved logs in between.
C10_IndexStable ==
  (last.cmd = "view" /\ last.index + 1 \in 1..Len(last.seen) /\ last.stale = {}) =>
     last.opened = <<last.seen[last.index + 1]>>

C10_Witness ==
  /\ last.cmd = "view"
  /\ Len(last.seen) = 1
  /\ Len(shown) = 2
  /\ last.index = 0
  /\ last.stale = {}
  /\ last.opened = <<last.seen[1]>>

\* C10 as claimed: a view of an index a listing displayed opens the file the
\* listing showed at that index.
C10_Original ==
  (last.cmd = "view" /\ last.index + 1 \in 1..Len(last.seen)) =>
     last.opened = <<last.seen[last.index + 1]>>

====
